---- MODULE Spec2Model ----
(***************************************************************************)
(* A model of shodan_search.py: credential resolution (get_api_key), the   *)
(* start-up of main, the query loop of handle_search_command, and the      *)
(* helpers sanitize_filename, write_txt, write_csv and write_json.         *)
(*                                                                         *)
(* Text is modelled as a sequence of symbols.  A symbol is one character   *)
(* ("a", " ", ":") or, for the fixed literals of the program that are      *)
(* never taken apart (field names, "country:", "N/A"), one whole literal.  *)
(* An optional value (None in Python) is a sequence of length 0 or 1:      *)
(* None is <<>> and the value v is <<v>>.                                  *)
(***************************************************************************)
EXTENDS Naturals, Sequences, FiniteSets

\* ---------------------------------------------------------------- bounds
\* Records one paginated fetch may yield before it ends or fails.
MaxRecords == 2
\* Length of the strings sanitize_filename is applied to in SpecSanitize.
MaxStrLen == 3
\* Number of records handed to write_csv in SpecCsv.
MaxRows == 1

\* ------------------------------------------------------------ text helpers
None == <<>>
Some(v) == <<v>>

\* Python truthiness of an optional string: neither None nor "".
Truthy(opt) == opt # None /\ opt[1] # <<>>

\* The characters str.strip() removes at either end.
Whitespace == {" ", "\n"}

RECURSIVE LStrip(_)
LStrip(s) == IF s # <<>> /\ Head(s) \in Whitespace THEN LStrip(Tail(s)) ELSE s

RECURSIVE RStrip(_)
RStrip(s) ==
    IF s # <<>> /\ s[Len(s)] \in Whitespace
    THEN RStrip(SubSeq(s, 1, Len(s) - 1))
    ELSE s

\* str.strip()
Strip(s) == RStrip(LStrip(s))

\* str.replace(c, r) for a one-character c
RECURSIVE Replace(_, _, _)
Replace(s, c, r) ==
    IF s = <<>> THEN <<>>
    ELSE (IF Head(s) = c THEN r ELSE <<Head(s)>>) \o Replace(Tail(s), c, r)

\* sep.join(parts)
RECURSIVE Join(_, _)
Join(parts, sep) ==
    IF parts = <<>> THEN <<>>
    ELSE IF Len(parts) = 1 THEN parts[1]
    ELSE parts[1] \o sep \o Join(Tail(parts), sep)

\* str.split(',')
RECURSIVE SplitFrom(_, _, _)
SplitFrom(s, c, cur) ==
    IF s = <<>> THEN <<cur>>
    ELSE IF Head(s) = c THEN <<cur>> \o SplitFrom(Tail(s), c, <<>>)
    ELSE SplitFrom(Tail(s), c, Append(cur, Head(s)))

Split(s, c) == SplitFrom(s, c, <<>>)

\* dict[k] = v
Put(d, k, v) == [x \in (DOMAIN d) \cup {k} |-> IF x = k THEN v ELSE d[x]]

EmptyDict == [x \in {} |-> <<>>]

\* ------------------------------------------------------- sanitize_filename
invalid_chars == <<"<", ">", ":", "\"", "/", "\\", "|", "?", "*">>

RECURSIVE RemoveChars(_, _)
RemoveChars(filename, chars) ==
    IF chars = <<>> THEN filename
    ELSE RemoveChars(Replace(filename, Head(chars), <<>>), Tail(chars))

sanitize_filename(query) ==
    RemoveChars(Replace(Strip(query), " ", <<"_">>), invalid_chars)

\* ------------------------------------------------------------ result records
\* A field name, as a one-symbol string.
F(name) == <<name>>

\* dict.get(k, default)
Get(d, k, default) == IF k \in DOMAIN d THEN d[k] ELSE default

\* x in list
InSeq(x, s) == \E k \in DOMAIN s : s[k] = x

NA == <<"N/A">>

\* ----------------------------------------------------------------- write_txt
TxtLine(res) ==
    LET hostnames == Join(Get(res, F("hostnames"), <<>>), <<",", " ">>)
    IN  [ip |-> Get(res, F("ip_str"), NA),
         port |-> Get(res, F("port"), NA),
         hostnames |-> IF hostnames = <<>> THEN NA ELSE hostnames]

write_txt(results, query) ==
    [fmt |-> "txt", title |-> query,
     lines |-> [n \in 1..Len(results) |-> TxtLine(results[n])]]

\* ----------------------------------------------------------------- write_csv
default_headers ==
    <<F("ip_str"), F("port"), F("hostnames"), F("isp"), F("org"),
      F("country"), F("timestamp"), F("data")>>

\* headers = [field.strip() for field in custom_fields.split(',')], or the default
CsvHeaders(custom_fields) ==
    IF Truthy(custom_fields)
    THEN LET parts == Split(custom_fields[1], ",")
         IN  [k \in 1..Len(parts) |-> Strip(parts[k])]
    ELSE default_headers

\* The record after the in-place flattening of lines 106-111.
CsvFlatten(res, headers) ==
    LET r1 == IF InSeq(F("country"), headers)
              THEN Put(res, F("country"),
                       Get(Get(res, F("location"), EmptyDict), F("country_name"), NA))
              ELSE res
        r2 == IF InSeq(F("hostnames"), headers)
              THEN Put(r1, F("hostnames"),
                       Join(Get(r1, F("hostnames"), <<>>), <<",", " ">>))
              ELSE r1
        r3 == IF InSeq(F("vulns"), headers)
              THEN Put(r2, F("vulns"), Join(Get(r2, F("vulns"), <<>>), <<",", " ">>))
              ELSE r2
    IN  r3

\* Mutant of CsvRow: a missing field is written as "N/A" instead of ''.
CsvRowRestvalNA(res, headers) ==
    LET flat == CsvFlatten(res, headers)
    IN  [k \in 1..Len(headers) |-> Get(flat, headers[k], NA)]

\* csv.DictWriter.writerow with extrasaction='ignore' and the default restval ''
CsvRow(res, headers) ==
    LET flat == CsvFlatten(res, headers)
    IN  [k \in 1..Len(headers) |-> Get(flat, headers[k], <<>>)]

write_csv(results, query, custom_fields) ==
    LET headers == CsvHeaders(custom_fields)
    IN  [fmt |-> "csv", header_rows |-> <<headers>>,
         rows |-> [n \in 1..Len(results) |-> CsvRow(results[n], headers)]]

\* ---------------------------------------------------------------- write_json
write_json(results, query) == [fmt |-> "json", dump |-> results]

\* --------------------------------------------------------------- get_api_key
\* Mutant of get_api_key: the environment variable is consulted first.
get_api_key_EnvFirst(args, env, config) ==
    IF Truthy(env) THEN env
    ELSE IF Truthy(args.api_key) THEN args.api_key
    ELSE IF config.state = "ok" THEN Some(Strip(config.content))
    ELSE None

\* config is the state of ~/.shodan/api: absent, unreadable (open or read
\* raises) or readable with some content.
get_api_key(args, env, config) ==
    IF Truthy(args.api_key) THEN args.api_key
    ELSE IF Truthy(env) THEN env
    ELSE IF config.state = "ok" THEN Some(Strip(config.content))
    ELSE None

\* ------------------------------------------------------ handle_search_command
\* Mutant of FinalQuery: the port filter is appended before the country filter.
FinalQueryPortFirst(query, args) ==
    LET query_parts ==
            <<query>>
            \o (IF Truthy(args.port) THEN <<F("port:") \o args.port[1]>> ELSE <<>>)
            \o (IF Truthy(args.country) THEN <<F("country:") \o args.country[1]>> ELSE <<>>)
            \o (IF Truthy(args.vuln) THEN <<F("vuln:") \o args.vuln[1]>> ELSE <<>>)
    IN  Join(query_parts, <<" ">>)

\* Lines 143-147: the query with the given filters appended.
FinalQuery(query, args) ==
    LET query_parts ==
            <<query>>
            \o (IF Truthy(args.country) THEN <<F("country:") \o args.country[1]>> ELSE <<>>)
            \o (IF Truthy(args.port) THEN <<F("port:") \o args.port[1]>> ELSE <<>>)
            \o (IF Truthy(args.vuln) THEN <<F("vuln:") \o args.vuln[1]>> ELSE <<>>)
    IN  Join(query_parts, <<" ">>)

\* Line 133: the stripped non-blank lines of the query file.
RECURSIVE StripLines(_)
StripLines(lines) ==
    IF lines = <<>> THEN <<>>
    ELSE (IF Strip(Head(lines)) # <<>> THEN <<Strip(Head(lines))>> ELSE <<>>)
         \o StripLines(Tail(lines))

\* Mutant of BaseFilename: --output is used however many queries are run.
BaseFilenameAnyCount(queries, query, args) ==
    IF Truthy(args.output)
    THEN args.output[1]
    ELSE sanitize_filename(query)

\* Line 165
BaseFilename(queries, query, args) ==
    IF Len(queries) = 1 /\ Truthy(args.output)
    THEN args.output[1]
    ELSE sanitize_filename(query)

\* Lines 166-168; stamp is the text strftime returns.
OutputFilename(base_filename, args, stamp) ==
    (IF args.timestamp THEN base_filename \o <<"_">> \o stamp ELSE base_filename)
    \o <<".">> \o F(args.format)

\* Lines 171-176: the content the chosen writer puts in the file.
WriterOutput(results, final, args) ==
    IF args.format = "csv" THEN write_csv(results, final, args.fields)
    ELSE IF args.format = "txt" THEN write_txt(results, final)
    ELSE write_json(results, final)

\* ===================================================================== state
VARIABLES
    args,            \* the parsed command line (parse_arguments)
    env_key,         \* os.environ.get('SHODAN_API_KEY')
    config_file,     \* the state of ~/.shodan/api
    query_file,      \* the state of the file args.query_file names
    pc,              \* where main is
    api_key,         \* main's api_key
    calls,           \* the calls made on the shodan client, in order
    queries_to_run,  \* handle_search_command's list of queries
    i,               \* 1-based position in queries_to_run of the current query
    final_query,     \* the query with filters handed to api.search_cursor
    results,         \* the records accumulated for the current query
    files,           \* the output files: filename -> content
    outcomes,        \* what was reported per query (lines 158, 162, 178)
    exit_status,     \* None while running, then the process's exit status
    fn_in,           \* the input of the function under test (function specs)
    fn_out           \* its result, None before it is applied

vars == <<args, env_key, config_file, query_file, pc, api_key, calls,
          queries_to_run, i, final_query, results, files, outcomes,
          exit_status, fn_in, fn_out>>

\* ------------------------------------------------------------------- inputs
ConfigFiles ==
    {[state |-> "absent", content |-> <<>>],
     [state |-> "error", content |-> <<>>]}
    \cup {[state |-> "ok", content |-> c] :
            c \in {<<>>, <<"\n">>, <<"C", "\n">>, <<"C", "\n", "D", "\n">>,
                   <<" ", "\n", "C">>}}

\* (args.api_key, SHODAN_API_KEY, ~/.shodan/api)
CredentialsAll ==
    [key : {None, Some(<<>>), Some(<<"K">>)},
     env : {None, Some(<<>>), Some(<<"E">>)},
     config : ConfigFiles]

CredentialsFew ==
    [key : {None, Some(<<"K">>)},
     env : {None},
     config : {[state |-> "absent", content |-> <<>>]}]

NoFile == [state |-> "missing", lines |-> <<>>]

\* -q QUERY
LiteralQueries ==
    {<<>>, <<" ">>, <<"a">>, <<":">>, <<"a", " ", "b">>, <<" ", "a", "*">>}

\* The files -qf FILE may name: missing, unreadable, or some lines.
QueryFiles ==
    {NoFile, [state |-> "unreadable", lines |-> <<>>]}
    \cup {[state |-> "ok", lines |-> l] :
            l \in {<<>>,
                   << <<" ">>, <<>> >>,
                   << <<"a">> >>,
                   << <<"a">>, <<":">> >>,
                   << <<" ", "b">>, <<" ">>, <<"a", ":">> >>}}

\* The two query options are mutually exclusive and one is required.
QuerySourcesAll ==
    {[query |-> Some(q), query_file |-> None, file |-> NoFile] : q \in LiteralQueries}
    \cup {[query |-> None, query_file |-> Some(<<"q">>), file |-> f] : f \in QueryFiles}

QuerySourcesFew ==
    {s \in QuerySourcesAll :
        \/ s.query \in {Some(<<>>), Some(<<"a">>)}
        \/ s.file.state = "unreadable"
        \/ s.file.lines \in {<< <<" ">>, <<>> >>, << <<"a">>, <<":">> >>}}

FilterValues(v) == {None, Some(<<>>), Some(v)}

OptionsAll ==
  {o \in
    [output : {None, Some(<<>>), Some(<<"o">>)},
     format : {"txt", "csv", "json"},
     timestamp : BOOLEAN,
     country : {None, Some(<<"U", "S">>)},
     port : FilterValues(<<"8", "0">>),
     vuln : {None, Some(<<"c", "v", "e">>)},
     fields : {None, Some(<<"ip_str", ",", " ", "zzz">>)}] :
    \* --fields is read by the csv writer only; one combination has an empty filter
    /\ o.fields # None => o.format = "csv"
    /\ o.port = Some(<<>>) => (o.country = None /\ o.vuln # None)}

OptionsFew ==
    {o \in OptionsAll :
        /\ o.timestamp = FALSE
        /\ o.country = None /\ o.port = None /\ o.vuln = None
        /\ o.fields = None
        /\ o.output # Some(<<>>)}

SearchArgs(key, src, opt) ==
    [api_key |-> key, command |-> "search",
     query |-> src.query, query_file |-> src.query_file,
     output |-> opt.output, format |-> opt.format, timestamp |-> opt.timestamp,
     country |-> opt.country, port |-> opt.port, vuln |-> opt.vuln,
     fields |-> opt.fields]

\* host and stats take one positional argument and none of the search options.
OtherArgs(key, command) ==
    [api_key |-> key, command |-> command,
     query |-> None, query_file |-> None,
     output |-> None, format |-> "txt", timestamp |-> FALSE,
     country |-> None, port |-> None, vuln |-> None, fields |-> None]

\* The records api.search_cursor may yield.
ApiRecords ==
    {[x \in {F("ip_str"), F("port"), F("hostnames"), F("location"), F("tags")} |->
        CASE x = F("ip_str") -> <<"1">>
          [] x = F("port") -> <<"8", "0">>
          [] x = F("hostnames") -> << <<"h">>, <<"g">> >>
          [] x = F("location") -> [y \in {F("country_name")} |-> <<"X">>]
          [] OTHER -> <<"t">>],
     [x \in {F("ip_str")} |-> <<"2">>]}

\* What datetime.now().strftime may return.
Stamps == {<<"T1">>, <<"T2">>}

\* --------------------------------------------------------------------- Init
InitWith(credentials, sources, options) ==
    /\ \E c \in credentials :
         /\ env_key = c.env
         /\ config_file = c.config
         /\ \/ \E s \in sources, o \in options :
                 /\ args = SearchArgs(c.key, s, o)
                 /\ query_file = s.file
            \/ /\ args \in {OtherArgs(c.key, "host"), OtherArgs(c.key, "stats")}
               /\ query_file = NoFile
    /\ pc = "main"
    /\ api_key = None
    /\ calls = <<>>
    /\ queries_to_run = <<>>
    /\ i = 1
    /\ final_query = <<>>
    /\ results = <<>>
    /\ files = EmptyDict
    /\ outcomes = <<>>
    /\ exit_status = None
    /\ fn_in = None
    /\ fn_out = None

Init == InitWith(CredentialsFew, QuerySourcesAll, OptionsAll)

InitKey == InitWith(CredentialsAll, QuerySourcesFew, OptionsFew)

\* ------------------------------------------------------------------ actions
Exit(status) ==
    /\ pc' = "done"
    /\ exit_status' = Some(status)

\* One call on the client; raised is whether it raised shodan.APIError.
Call(op, query, raised) == [op |-> op, query |-> query, raised |-> raised]

\* main, lines 297-306: resolve the credential, exit 1 when there is none.
ResolveKey ==
    /\ pc = "main"
    /\ api_key' = get_api_key(args, env_key, config_file)
    /\ IF Truthy(api_key')
       THEN pc' = "connect" /\ UNCHANGED exit_status
       ELSE Exit(1)
    /\ UNCHANGED <<args, env_key, config_file, query_file, calls, queries_to_run,
                   i, final_query, results, files, outcomes, fn_in, fn_out>>

\* main, lines 308-310: the client is built and api.info() accepts the key.
ValidateOk ==
    /\ pc = "connect"
    /\ calls' = calls \o <<Call("Shodan", <<>>, FALSE), Call("info", <<>>, FALSE)>>
    /\ pc' = "dispatch"
    /\ UNCHANGED <<args, env_key, config_file, query_file, api_key, queries_to_run,
                   i, final_query, results, files, outcomes, exit_status, fn_in,
                   fn_out>>

\* main, lines 308-313: api.info() raises APIError.
ValidateFail ==
    /\ pc = "connect"
    /\ calls' = calls \o <<Call("Shodan", <<>>, FALSE), Call("info", <<>>, TRUE)>>
    /\ Exit(1)
    /\ UNCHANGED <<args, env_key, config_file, query_file, api_key, queries_to_run,
                   i, final_query, results, files, outcomes, fn_in, fn_out>>

\* handle_search_command, lines 127-139: the list of queries to run.
LoadQueries ==
    /\ pc = "dispatch"
    /\ args.command = "search"
    /\ i' = 1
    /\ IF Truthy(args.query)
       THEN /\ queries_to_run' = <<args.query[1]>>
            /\ pc' = "loop"
            /\ UNCHANGED exit_status
       ELSE IF Truthy(args.query_file)
       THEN IF query_file.state = "ok"
            THEN /\ queries_to_run' = StripLines(query_file.lines)
                 /\ IF queries_to_run' = <<>>
                    THEN Exit(1)
                    ELSE pc' = "loop" /\ UNCHANGED exit_status
            \* FileNotFoundError is caught (exit 1); any other error of open
            \* or read is not, and ends the process with status 1 too.
            ELSE /\ queries_to_run' = <<>>
                 /\ Exit(1)
       ELSE /\ queries_to_run' = <<>>
            /\ pc' = "loop"
            /\ UNCHANGED exit_status
    /\ UNCHANGED <<args, env_key, config_file, query_file, api_key, calls,
                   final_query, results, files, outcomes, fn_in, fn_out>>

\* Line 141, the list is exhausted: handle_search_command and main return.
LoopExit ==
    /\ pc = "loop"
    /\ i > Len(queries_to_run)
    /\ Exit(0)
    /\ UNCHANGED <<args, env_key, config_file, query_file, api_key, calls,
                   queries_to_run, i, final_query, results, files, outcomes,
                   fn_in, fn_out>>

\* Lines 141-155: the next query is composed and its fetch is started.
StartQuery ==
    /\ pc = "loop"
    /\ i <= Len(queries_to_run)
    /\ final_query' = FinalQuery(queries_to_run[i], args)
    /\ results' = <<>>
    /\ calls' = Append(calls, Call("search_cursor", final_query', FALSE))
    /\ pc' = "fetch"
    /\ UNCHANGED <<args, env_key, config_file, query_file, api_key, queries_to_run,
                   i, files, outcomes, exit_status, fn_in, fn_out>>

\* Lines 155-156: the cursor yields one more record.
FetchYield ==
    /\ pc = "fetch"
    /\ Len(results) < MaxRecords
    /\ \E r \in ApiRecords : results' = Append(results, r)
    /\ UNCHANGED <<args, env_key, config_file, query_file, pc, api_key, calls,
                   queries_to_run, i, final_query, files, outcomes, exit_status,
                   fn_in, fn_out>>

Outcome(kind, file) == [query |-> i, kind |-> kind, file |-> file]

\* Mutant of FetchError: the records fetched before the error are written.
FetchErrorWritesPartial ==
    /\ pc = "fetch"
    /\ calls' = [calls EXCEPT ![Len(calls)].raised = TRUE]
    /\ files' = IF results = <<>> THEN files
                ELSE Put(files,
                         OutputFilename(BaseFilename(queries_to_run, queries_to_run[i], args),
                                        args, <<"T1">>),
                         WriterOutput(results, final_query, args))
    /\ outcomes' = Append(outcomes, Outcome("RemoteError", None))
    /\ i' = i + 1
    /\ pc' = "loop"
    /\ UNCHANGED <<args, env_key, config_file, query_file, api_key,
                   queries_to_run, final_query, results, exit_status,
                   fn_in, fn_out>>

\* Lines 157-159: the cursor raises shodan.APIError.
FetchError ==
    /\ pc = "fetch"
    /\ calls' = [calls EXCEPT ![Len(calls)].raised = TRUE]
    /\ outcomes' = Append(outcomes, Outcome("RemoteError", None))
    /\ i' = i + 1
    /\ pc' = "loop"
    /\ UNCHANGED <<args, env_key, config_file, query_file, api_key,
                   queries_to_run, final_query, results, files, exit_status,
                   fn_in, fn_out>>

\* Mutant of EmptyResult: an empty result set is written like any other.
EmptyResultWritesFile ==
    /\ pc = "fetch"
    /\ results = <<>>
    /\ LET output_filename ==
               OutputFilename(BaseFilename(queries_to_run, queries_to_run[i], args),
                              args, <<"T1">>)
       IN  /\ files' = Put(files, output_filename,
                           WriterOutput(results, final_query, args))
           /\ outcomes' = Append(outcomes, Outcome("Success", Some(output_filename)))
    /\ i' = i + 1
    /\ pc' = "loop"
    /\ UNCHANGED <<args, env_key, config_file, query_file, api_key, calls,
                   queries_to_run, final_query, results, exit_status,
                   fn_in, fn_out>>

\* Lines 161-163: the cursor is exhausted and nothing was found.
EmptyResult ==
    /\ pc = "fetch"
    /\ results = <<>>
    /\ outcomes' = Append(outcomes, Outcome("EmptyResult", None))
    /\ i' = i + 1
    /\ pc' = "loop"
    /\ UNCHANGED <<args, env_key, config_file, query_file, api_key, calls,
                   queries_to_run, final_query, results, files, exit_status,
                   fn_in, fn_out>>

\* Lines 165-178: the cursor is exhausted and the results are written.
WriteSuccess ==
    /\ pc = "fetch"
    /\ results # <<>>
    /\ \E stamp \in Stamps :
         LET base_filename == BaseFilename(queries_to_run, queries_to_run[i], args)
             output_filename == OutputFilename(base_filename, args, stamp)
         IN  /\ files' = Put(files, output_filename,
                             WriterOutput(results, final_query, args))
             /\ outcomes' = Append(outcomes, Outcome("Success", Some(output_filename)))
    \* write_csv flattens the records in place
    /\ results' = IF args.format = "csv"
                  THEN [n \in 1..Len(results) |->
                          CsvFlatten(results[n], CsvHeaders(args.fields))]
                  ELSE results
    /\ i' = i + 1
    /\ pc' = "loop"
    /\ UNCHANGED <<args, env_key, config_file, query_file, api_key, calls,
                   queries_to_run, final_query, exit_status, fn_in, fn_out>>

\* Lines 165-176: open() in the writer raises OSError, which nothing catches:
\* the process ends with a traceback and status 1.
WriteFailure ==
    /\ pc = "fetch"
    /\ results # <<>>
    /\ Exit(1)
    /\ UNCHANGED <<args, env_key, config_file, query_file, api_key, calls,
                   queries_to_run, i, final_query, results, files, outcomes,
                   fn_in, fn_out>>

\* handle_host_command / handle_stats_command: one call, exit 1 on APIError.
OtherCommand ==
    /\ pc = "dispatch"
    /\ args.command \in {"host", "stats"}
    /\ \E raised \in BOOLEAN :
         /\ calls' = Append(calls, Call(IF args.command = "host" THEN "host" ELSE "count",
                                        <<>>, raised))
         /\ Exit(IF raised THEN 1 ELSE 0)
    /\ UNCHANGED <<args, env_key, config_file, query_file, api_key, queries_to_run,
                   i, final_query, results, files, outcomes, fn_in, fn_out>>

Next ==
    \/ ResolveKey
    \/ ValidateOk
    \/ ValidateFail
    \/ LoadQueries
    \/ LoopExit
    \/ StartQuery
    \/ FetchYield
    \/ FetchError
    \/ EmptyResult
    \/ WriteSuccess
    \/ WriteFailure
    \/ OtherCommand

Spec == Init /\ [][Next]_vars

SpecKey == InitKey /\ [][Next]_vars

\* ============================================== sanitize_filename on its own
\* Every string of at most n symbols of chars.
Strings(chars, n) == UNION {[1..k -> chars] : k \in 0..n}

SanitizeChars == {"a", " ", "_", "<", ">", ":", "\"", "/", "\\", "|", "?", "*"}

Idle ==
    /\ args = OtherArgs(None, "host")
    /\ env_key = None
    /\ config_file = [state |-> "absent", content |-> <<>>]
    /\ query_file = NoFile
    /\ api_key = None
    /\ calls = <<>>
    /\ queries_to_run = <<>>
    /\ i = 1
    /\ final_query = <<>>
    /\ results = <<>>
    /\ files = EmptyDict
    /\ outcomes = <<>>
    /\ exit_status = None

InitSanitize ==
    /\ Idle
    /\ pc = "call"
    \* the queries that reach line 165 are never empty
    /\ fn_in \in {Some(q) : q \in Strings(SanitizeChars, MaxStrLen) \ {<<>>}}
    /\ fn_out = None

CallSanitize ==
    /\ pc = "call"
    /\ fn_out' = Some(sanitize_filename(fn_in[1]))
    /\ pc' = "returned"
    /\ UNCHANGED <<args, env_key, config_file, query_file, api_key, calls,
                   queries_to_run, i, final_query, results, files, outcomes,
                   exit_status, fn_in>>

SpecSanitize == InitSanitize /\ [][CallSanitize]_vars

\* ====================================================== write_csv on its own
\* A record with the fields of keys; location carries country_name or not.
CsvRecord(keys, named) ==
    [x \in keys |->
        CASE x = F("ip_str") -> <<"1">>
          [] x = F("hostnames") -> << <<"h">>, <<"g">> >>
          [] x = F("vulns") -> << <<"v">> >>
          [] x = F("location") ->
                IF named THEN [y \in {F("country_name")} |-> <<"X">>] ELSE EmptyDict
          [] OTHER -> <<"t">>]

CsvRecords ==
    {CsvRecord(keys, named) :
        keys \in SUBSET {F("ip_str"), F("hostnames"), F("vulns"), F("location"), F("tags")},
        named \in BOOLEAN}

\* --fields
CustomFields ==
    {None, Some(<<>>),
     Some(<<"zzz">>),
     Some(<<"ip_str", ",", " ", "zzz">>),
     Some(<<"country", ",", "hostnames", ",", "vulns">>),
     Some(<<" ", "tags", " ", ",", "ip_str">>),
     Some(<<"ip_str", ",", ",", "ip_str">>),
     Some(<<"vulns", ",", "zzz", " ", "zzz">>)}

InitCsv ==
    /\ Idle
    /\ pc = "call"
    /\ \E rs \in Strings(CsvRecords, MaxRows), custom_fields \in CustomFields :
         fn_in = Some([results |-> rs, custom_fields |-> custom_fields])
    /\ fn_out = None

CallCsv ==
    /\ pc = "call"
    /\ fn_out' = Some(write_csv(fn_in[1].results, <<>>, fn_in[1].custom_fields))
    /\ pc' = "returned"
    /\ UNCHANGED <<args, env_key, config_file, query_file, api_key, calls,
                   queries_to_run, i, final_query, results, files, outcomes,
                   exit_status, fn_in>>

SpecCsv == InitCsv /\ [][CallCsv]_vars

\* ==================================================================== claims
\* The search fetches issued so far, in order.
SearchCalls == SelectSeq(calls, LAMBDA c : c.op = "search_cursor")

Last(s) == s[Len(s)]

\* The step in which the current fetch raises the remote API error.
FetchRaises ==
    /\ pc = "fetch"
    /\ Len(calls') = Len(calls)
    /\ ~Last(calls).raised
    /\ Last(calls').raised

\* C1: when the paginated fetch of a query raises a remote API error, after
\* any number of records, no output file is created or written for that query
\* (the records are discarded) and the loop goes on to the next query.
C1_RemoteErrorWritesNoFile ==
    [][FetchRaises =>
         /\ files' = files
         /\ outcomes' = Append(outcomes, [query |-> i, kind |-> "RemoteError", file |-> None])
         /\ pc' = "loop"
         /\ i' = i + 1
         /\ exit_status' = None]_vars

\* A first query failed after yielding records, nothing was written, and a
\* second query is about to be processed.
C1_Witness ==
    /\ pc = "loop"
    /\ Len(outcomes) = 1
    /\ outcomes[1].kind = "RemoteError"
    /\ results # <<>>
    /\ files = EmptyDict
    /\ i = 2
    /\ Len(queries_to_run) = 2

\* C2: when the fetch of a query completes without error and yields no record,
\* no writer runs and no file is created; the query ends as an empty result
\* and the next query is processed.
C2_EmptyResultWritesNoFile ==
    [][(pc = "fetch" /\ results = <<>> /\ pc' # "fetch" /\ ~FetchRaises) =>
         /\ files' = files
         /\ outcomes' = Append(outcomes, [query |-> i, kind |-> "EmptyResult", file |-> None])
         /\ pc' = "loop"
         /\ i' = i + 1
         /\ exit_status' = None]_vars

\* A first query found nothing, no file exists, and a second one is next.
C2_Witness ==
    /\ pc = "loop"
    /\ Len(outcomes) = 1
    /\ outcomes[1].kind = "EmptyResult"
    /\ files = EmptyDict
    /\ i = 2
    /\ Len(queries_to_run) = 2

\* C3 (as claimed): once a fetch has been issued, no per-query failure, an
\* unwritable output destination included, aborts the run: the process ends
\* with status 0 after every query of the batch was processed.
C3_PerQueryFailureNeverAborts ==
    (pc = "done" /\ SearchCalls # <<>>) =>
        /\ exit_status = Some(0)
        /\ Len(SearchCalls) = Len(queries_to_run)

\* The credential was rejected by the validation call.
Rejected == \E k \in DOMAIN calls : calls[k].op = "info" /\ calls[k].raised

\* The query file named on the command line cannot be read.
Unreadable == args.query_file # None /\ query_file.state # "ok"

\* The list of queries the command line asks for is empty.
NoQueries ==
    \/ args.query = Some(<<>>)
    \/ /\ args.query_file # None
       /\ query_file.state = "ok"
       /\ \A k \in DOMAIN query_file.lines : Strip(query_file.lines[k]) = <<>>

\* C4 (as claimed): a search run that lacks a prerequisite (no credential, a
\* rejected credential, an unreadable query file, an empty list of queries from
\* a blank query file or from the literal option) exits with non-zero status
\* and issues no fetch; the validation call precedes every fetch.
C4_MissingPrerequisiteExitsNonZero ==
    /\ (args.command = "search" /\ pc = "done"
          /\ (~Truthy(api_key) \/ Rejected \/ Unreadable \/ NoQueries)) =>
            (exit_status # Some(0) /\ SearchCalls = <<>>)
    /\ \A k \in DOMAIN calls :
         calls[k].op = "search_cursor" =>
            \E j \in 1..(k - 1) : calls[j].op = "info" /\ ~calls[j].raised

\* name is base, then "_" and a time stamp when --timestamp is given, then
\* "." and the format.
NamedFrom(name, base) ==
    IF args.timestamp
    THEN \E stamp \in Stamps : name = base \o <<"_">> \o stamp \o <<".", args.format>>
    ELSE name = base \o <<".", args.format>>

\* C5: the --output name is the base filename if and only if exactly one query
\* is run and the option is given (not empty); with two or more queries every
\* written file is named from sanitize_filename of its own base query.
C5_OutputNameOnlyForSingleQuery ==
    \A k \in DOMAIN outcomes :
        outcomes[k].kind = "Success" =>
            LET name == outcomes[k].file[1]
                query == queries_to_run[outcomes[k].query]
            IN  /\ name \in DOMAIN files
                /\ IF Len(queries_to_run) = 1 /\ Truthy(args.output)
                   THEN NamedFrom(name, args.output[1])
                   ELSE NamedFrom(name, sanitize_filename(query))

\* Two queries with --output and a filter: both were written, neither under
\* the --output name.
C5_Witness ==
    /\ Len(queries_to_run) = 2
    /\ args.output = Some(<<"o">>)
    /\ Truthy(args.country)
    /\ Len(outcomes) = 2
    /\ outcomes[1].kind = "Success"
    /\ outcomes[2].kind = "Success"
    /\ outcomes[1].file # outcomes[2].file

\* The filters as they follow the base query.
FilterSuffix ==
    (IF Truthy(args.country) THEN <<" ", "country:">> \o args.country[1] ELSE <<>>)
    \o (IF Truthy(args.port) THEN <<" ", "port:">> \o args.port[1] ELSE <<>>)
    \o (IF Truthy(args.vuln) THEN <<" ", "vuln:">> \o args.vuln[1] ELSE <<>>)

\* C7: the query handed to every fetch is the base query followed by the
\* present filters as key:value, each after one space, in the order country,
\* port, vuln; the same filters are applied to every query of the batch.
C7_FinalQueryIsBaseThenFilters ==
    /\ Len(SearchCalls) <= Len(queries_to_run)
    /\ \A k \in DOMAIN SearchCalls :
         SearchCalls[k].query = queries_to_run[k] \o FilterSuffix
    /\ pc = "fetch" => final_query = queries_to_run[i] \o FilterSuffix

\* Two fetches were issued with country and port present and vuln absent.
C7_Witness ==
    /\ Len(SearchCalls) = 2
    /\ Truthy(args.country)
    /\ Truthy(args.port)
    /\ args.vuln = None
    /\ SearchCalls[1].query # SearchCalls[2].query

\* C8 (as claimed): a base query that is empty after trimming is rejected with
\* a validation error: no fetch is issued for it and the run does not succeed.
C8_BlankBaseQueryIsRejected ==
    /\ \A k \in DOMAIN SearchCalls : Strip(queries_to_run[k]) # <<>>
    /\ (pc = "done" /\ args.query # None /\ Strip(args.query[1]) = <<>>
          /\ Truthy(api_key) /\ ~Rejected) => exit_status # Some(0)

\* The text before the first line break.
RECURSIVE FirstLine(_)
FirstLine(s) ==
    IF s = <<>> \/ Head(s) = "\n" THEN <<>> ELSE <<Head(s)>> \o FirstLine(Tail(s))

\* The credential and what follows from there being none, given what the
\* config file contributes.
ResolvedAs(from_config) ==
    LET expected ==
            IF Truthy(args.api_key) THEN args.api_key
            ELSE IF Truthy(env_key) THEN env_key
            ELSE IF config_file.state = "ok" THEN Some(from_config)
            ELSE None
    IN  pc # "main" =>
          IF Truthy(expected)
          THEN api_key = expected
          ELSE /\ ~Truthy(api_key)
               /\ pc = "done"
               /\ exit_status = Some(1)
               /\ calls = <<>>

\* C6 (as claimed): the credential is the command-line value, else the
\* environment variable, else the trimmed first line of ~/.shodan/api; with
\* none of them main exits non-zero before building the client or calling it.
C6_KeyFromFirstLineOfConfig == ResolvedAs(Strip(FirstLine(config_file.content)))

\* C6 (amended): as claimed, but the config file contributes its whole
\* content, trimmed at both ends.
C6_KeyFromWholeConfig == ResolvedAs(Strip(config_file.content))

\* No usable command-line or environment value, a config file of two lines:
\* the key is both lines and the client was built with it.
C6_Witness ==
    /\ args.api_key = Some(<<>>)
    /\ env_key = None
    /\ config_file.content = <<"C", "\n", "D", "\n">>
    /\ api_key = Some(<<"C", "\n", "D">>)
    /\ calls # <<>>

InvalidChars == {invalid_chars[k] : k \in DOMAIN invalid_chars}

\* C9 (as claimed): sanitize_filename returns a string with none of the
\* characters < > : " / \ | ? * and never the empty string.
C9_SanitizedNameIsCleanAndNotEmpty ==
    fn_out # None =>
        /\ \A k \in DOMAIN fn_out[1] : fn_out[1][k] \notin InvalidChars
        /\ fn_out[1] # <<>>

\* s without the symbols of drop
RECURSIVE Without(_, _)
Without(s, drop) ==
    IF s = <<>> THEN <<>>
    ELSE (IF Head(s) \in drop THEN <<>> ELSE <<Head(s)>>) \o Without(Tail(s), drop)

RECURSIVE Concat(_)
Concat(ss) == IF ss = <<>> THEN <<>> ELSE Head(ss) \o Concat(Tail(ss))

\* headers is the header the field list asks for: the default list, or the
\* comma-separated fields, trimmed, in their order.
HeaderFor(headers, custom_fields) ==
    IF Truthy(custom_fields)
    THEN /\ Len(headers) = 1 + Len(SelectSeq(custom_fields[1], LAMBDA c : c = ","))
         /\ \A k \in DOMAIN headers : headers[k] = Strip(headers[k])
         /\ Without(Concat(headers), Whitespace)
              = Without(custom_fields[1], Whitespace \cup {","})
    ELSE headers = << <<"ip_str">>, <<"port">>, <<"hostnames">>, <<"isp">>, <<"org">>,
                      <<"country">>, <<"timestamp">>, <<"data">> >>

\* What a header field the record lacks is written as: '' and, when derived,
\* location.country_name (or "N/A" without one) in the country column.
AbsentValue(res, field, derived) ==
    IF derived /\ field = F("country")
    THEN IF F("location") \in DOMAIN res
            /\ F("country_name") \in DOMAIN res[F("location")]
         THEN res[F("location")][F("country_name")]
         ELSE <<"N/A">>
    ELSE <<>>

\* One header row for the field list, one row per record with one value per
\* header field, plain fields the record has written as they are and fields
\* it lacks as AbsentValue gives.
CsvShape(derived) ==
    fn_out # None =>
        LET rs == fn_in[1].results
            out == fn_out[1]
            headers == out.header_rows[1]
        IN  /\ Len(out.header_rows) = 1
            /\ HeaderFor(headers, fn_in[1].custom_fields)
            /\ Len(out.rows) = Len(rs)
            /\ \A n \in DOMAIN rs :
                 /\ Len(out.rows[n]) = Len(headers)
                 /\ \A k \in DOMAIN headers :
                      IF headers[k] \in DOMAIN rs[n]
                      THEN headers[k] \in {F("ip_str"), F("tags")}
                              => out.rows[n][k] = rs[n][headers[k]]
                      ELSE out.rows[n][k] = AbsentValue(rs[n], headers[k], derived)

\* C10 (as claimed): write_csv writes one header row (the custom fields, else
\* the default ones, in order) and one row per record; fields not in the header
\* are dropped and every header field a record lacks is written empty.
C10_AbsentFieldsAreEmpty == CsvShape(FALSE)

\* C10 (amended): as claimed, except for the header field country, which is
\* written as the record's location.country_name, or "N/A" when it has none.
C10_AbsentFieldsAreEmptyButCountry == CsvShape(TRUE)

\* A custom field list naming a field no record has, written for a record
\* that has a field the list does not name.
C10_Witness ==
    /\ fn_out # None
    /\ fn_in[1].custom_fields = Some(<<"ip_str", ",", " ", "zzz">>)
    /\ Len(fn_in[1].results) = 1
    /\ DOMAIN fn_in[1].results[1] = {F("ip_str"), F("tags")}
    /\ fn_out[1].header_rows = << <<F("ip_str"), F("zzz")>> >>
    /\ fn_out[1].rows = << << <<"1">>, <<>> >> >>

====
